---- MODULE Spec2Model ----
(***************************************************************************)
(* Model of scripts/test-hostbridge-server.ts: the mock host-bridge gRPC   *)
(* service (createMockService) and its diff-session table.                 *)
(*                                                                         *)
(* Text is a sequence of one-character strings; a line is a text without   *)
(* "\n"; a session's content is a sequence of lines.  File data is a       *)
(* sequence of bytes (ASCII bytes are written as their character).         *)
(***************************************************************************)
EXTENDS Integers, Sequences, FiniteSets, TLC

\* ------------------------------------------------------------------ bounds
MaxOpens == 2       \* openDiff calls per run (caps diffCounter)
MaxLines == 3       \* longest session content the edits may build
MaxEdits == 2       \* longest edit list of one applyEdits call
MaxOpens1 == 1      \* openDiff calls per run of the single-session specifications
MaxHist   == 3      \* edits recorded for one session in SpecHist

\* --------------------------------------------------------------- constants
Pid == 4242         \* process.pid, fixed for the life of the process
TelemetryDisabled == 2   \* isEnabled: 2, the Setting value "disabled"

Undefined == "undefined"
Null      == "null"
NL        == "\n"
BadByte   == "xFF"       \* a byte that is never valid in UTF-8
RChar     == "uFFFD"     \* U+FFFD REPLACEMENT CHARACTER
RBytes    == <<"xEF", "xBF", "xBD">>   \* the UTF-8 encoding of U+FFFD

Max(a, b) == IF a >= b THEN a ELSE b
Min(a, b) == IF a <= b THEN a ELSE b

\* ------------------------------------------------------- strings and arrays
RECURSIVE IndexOfNL(_, _)
\* first index >= i of "\n" in text t, or 0
IndexOfNL(t, i) ==
    IF i > Len(t) THEN 0
    ELSE IF t[i] = NL THEN i
    ELSE IndexOfNL(t, i + 1)

RECURSIVE Split(_)
\* String.prototype.split("\n"): "" -> [""], "a\n" -> ["a", ""]
Split(t) ==
    LET i == IndexOfNL(t, 1) IN
    IF i = 0 THEN <<t>>
    ELSE <<SubSeq(t, 1, i - 1)>> \o Split(SubSeq(t, i + 1, Len(t)))

RECURSIVE JoinTerminated(_)
\* Join that ends every line with "\n" instead of separating the lines
JoinTerminated(lines) ==
    IF Len(lines) = 0 THEN <<>>
    ELSE lines[1] \o <<NL>> \o JoinTerminated(Tail(lines))

RECURSIVE Join(_)
\* Array.prototype.join("\n"): [] -> "", ["a"] -> "a"
Join(lines) ==
    IF Len(lines) = 0 THEN <<>>
    ELSE IF Len(lines) = 1 THEN lines[1]
    ELSE lines[1] \o <<NL>> \o Join(Tail(lines))

\* Splice with a negative start clamped to 0
SpliceClampStart(arr, start, deleteCount, items) ==
    LET len         == Len(arr)
        actualStart == Min(Max(start, 0), len)
        actualCount == Min(Max(deleteCount, 0), len - actualStart)
    IN  SubSeq(arr, 1, actualStart) \o items
            \o SubSeq(arr, actualStart + actualCount + 1, len)

\* Array.prototype.splice(start, deleteCount, ...items), returning the array
\* as mutated: a negative start counts from the end, start and deleteCount
\* are clamped to the array.
Splice(arr, start, deleteCount, items) ==
    LET len         == Len(arr)
        actualStart == IF start < 0 THEN Max(len + start, 0) ELSE Min(start, len)
        actualCount == Min(Max(deleteCount, 0), len - actualStart)
    IN  SubSeq(arr, 1, actualStart) \o items
            \o SubSeq(arr, actualStart + actualCount + 1, len)

RECURSIVE Utf8Decode(_)
\* Buffer -> string under "utf8": an invalid byte decodes to U+FFFD
Utf8Decode(bytes) ==
    IF Len(bytes) = 0 THEN <<>>
    ELSE IF Len(bytes) >= 3 /\ SubSeq(bytes, 1, 3) = RBytes
         THEN <<RChar>> \o Utf8Decode(SubSeq(bytes, 4, Len(bytes)))
    ELSE IF Head(bytes) \in {BadByte, "xEF", "xBF", "xBD"}
         THEN <<RChar>> \o Utf8Decode(Tail(bytes))
    ELSE <<Head(bytes)>> \o Utf8Decode(Tail(bytes))

RECURSIVE Utf8Encode(_)
\* string -> Buffer under "utf8"
Utf8Encode(chars) ==
    IF Len(chars) = 0 THEN <<>>
    ELSE IF Head(chars) = RChar THEN RBytes \o Utf8Encode(Tail(chars))
    ELSE <<Head(chars)>> \o Utf8Encode(Tail(chars))

\* ------------------------------------------------------------------- paths
\* An absolute path is the sequence of its components; "/" is <<>>.
WsDir == <<"ws">>
Cwd   == WsDir                        \* process.cwd()
FileF == <<"ws", "f">>
DirD  == <<"ws", "d">>
FileG == <<"ws", "d", "g">>
AllPaths == {<<>>, WsDir, FileF, DirD, FileG}

\* path.dirname
Dirname(p) == IF Len(p) = 0 THEN p ELSE SubSeq(p, 1, Len(p) - 1)

\* request paths: [abs |-> is absolute, parts |-> components]; "" is relative
\* with no component
ReqPaths == { [abs |-> FALSE, parts |-> <<>>],
              [abs |-> FALSE, parts |-> <<"f">>],
              [abs |-> TRUE,  parts |-> FileG] }

\* ------------------------------------------------------------- file system
NoNode       == [kind |-> "none"]
DirNode      == [kind |-> "dir"]
FileNode(d)  == [kind |-> "file", data |-> d]

\* fs.existsSync
ExistsSync(fsys, p) == fsys[p].kind # "none"

VARIABLE diffSessions   \* Map<string, DiffSession>: diff_id -> session
VARIABLE diffCounter    \* let diffCounter
VARIABLE fs             \* the file system: AllPaths -> node
VARIABLE envWorkspace   \* process.env.TEST_HOSTBRIDGE_WORKSPACE_DIR
VARIABLE reply          \* what the last call's handler passed to callback
VARIABLE log            \* console output of the last call's handler
VARIABLE returnedIds    \* every diff_id handed to a caller so far
VARIABLE wire           \* what the last call's handler did with callback and call
VARIABLE hist           \* diff_id -> content at openDiff and every edit sent since

vars == <<diffSessions, diffCounter, fs, envWorkspace, reply, log, returnedIds,
          wire, hist>>

\* ------------------------------------------------------------- Map methods
EmptyMap == [k \in {} |-> k]

\* Map.prototype.set: adds the key or overwrites its value
MapSet(m, k, v) == [x \in DOMAIN m \cup {k} |-> IF x = k THEN v ELSE m[x]]

\* Map.prototype.clear in place of delete, when the key is present
MapDeleteAll(m, k) == IF k \in DOMAIN m THEN EmptyMap ELSE m

\* Map.prototype.delete
MapDelete(m, k) == [x \in DOMAIN m \ {k} |-> m[x]]

\* --------------------------------------------------------------- responses
\* callback(null, {})
EmptyReply == [err |-> Null, value |-> [shape |-> "empty"]]

\* callback(null, { diff_id })
DiffIdReply(id) == [err |-> Null, value |-> [shape |-> "diff_id", diff_id |-> id]]

\* no call handled yet
NoReply == [err |-> Null, value |-> [shape |-> "none"]]

\* the call object before its handler runs: callback not invoked, nothing
\* written to the stream, call.end() not called
NotAnswered == [callbacks |-> 0, written |-> 0, ended |-> FALSE]

\* callback invoked once
Answered == [callbacks |-> 1, written |-> 0, ended |-> FALSE]

\* console.log(`Hostbridge: ${serviceName}.${String(prop)} called with:`, call.request)
CalledOn(service, method, request) ==
    [tag |-> "called", service |-> service, method |-> method, request |-> request]

\* the same line for a method of the DiffService
Called(method, request) == CalledOn("DiffService", method, request)

\* ---------------------------------------------------------------- openDiff
\* DiffId numbered by the size of the table instead of the counter
DiffIdBySize(n) == "diff_" \o ToString(Pid) \o "_" \o ToString(Cardinality(DOMAIN diffSessions) + 1)

\* `diff_${process.pid}_${diffCounter}`
DiffId(n) == "diff_" \o ToString(Pid) \o "_" \o ToString(n)

\* process.env.TEST_HOSTBRIDGE_WORKSPACE_DIR || process.cwd()
OpenWorkspaceDir(env) == IF env.set THEN env.value ELSE Cwd

\* path.isAbsolute(filePath) ? filePath : path.join(workspaceDir, filePath)
FullPath(env, reqPath) ==
    IF reqPath.abs THEN reqPath.parts ELSE OpenWorkspaceDir(env) \o reqPath.parts

\* fs.readFileSync(p, "utf8") throws on a directory (EISDIR) and whenever the
\* operating system refuses the read (readThrows)
ReadThrows(fsys, p, readThrows) == fsys[p].kind = "dir" \/ readThrows

\* OpenContent that drops the empty lines of the file
OpenContentSkipEmpty(fsys, p, readThrows) ==
    IF ~ExistsSync(fsys, p) THEN <<>>
    ELSE IF ReadThrows(fsys, p, readThrows) THEN <<>>
    ELSE SelectSeq(Split(Utf8Decode(fsys[p].data)), LAMBDA line : Len(line) > 0)

\* the try/catch of openDiff: content read from the file, or [] when the file
\* does not exist or the read threw
OpenContent(fsys, p, readThrows) ==
    IF ~ExistsSync(fsys, p) THEN <<>>
    ELSE IF ReadThrows(fsys, p, readThrows) THEN <<>>
    ELSE Split(Utf8Decode(fsys[p].data))

OpenLog(fsys, p, readThrows, id, content) ==
    (IF ExistsSync(fsys, p) /\ ReadThrows(fsys, p, readThrows)
        THEN <<[tag |-> "openDiff.couldNotRead", path |-> p]>> ELSE <<>>)
    \o <<[tag |-> "openDiff.created", id |-> id, path |-> p, lines |-> Len(content)]>>

OpenDiff(reqPath, readThrows) ==
    /\ LET fullPath == FullPath(envWorkspace, reqPath)
           diffId   == DiffId(diffCounter + 1)
           content  == OpenContent(fs, fullPath, readThrows)
       IN  /\ diffCounter' = diffCounter + 1
           /\ diffSessions' = MapSet(diffSessions, diffId,
                   [originalPath |-> fullPath, content |-> content, encoding |-> "utf8"])
           /\ log' = <<Called("openDiff", [path |-> reqPath])>>
                       \o OpenLog(fs, fullPath, readThrows, diffId, content)
           /\ reply' = DiffIdReply(diffId)
           /\ returnedIds' = returnedIds \cup {diffId}
    /\ UNCHANGED <<fs, envWorkspace>>
    /\ wire' = Answered

\* -------------------------------------------------------------- applyEdits
\* an edit is a record whose fields start_line, end_line, content may each be
\* missing (undefined after decoding)
StartLine(edit) == IF "start_line" \in DOMAIN edit THEN edit.start_line ELSE 0

EndLine(edit) == IF "end_line" \in DOMAIN edit THEN edit.end_line ELSE StartLine(edit)

\* NewContent reading a field the request does not have: always ""
NewContentIgnored(edit) == <<>>

\* edit.content || ""
NewContent(edit) == IF "content" \in DOMAIN edit THEN edit.content ELSE <<>>

\* ApplyEdit with the range taken as half-open: endLine - startLine lines go
ApplyEditExclusive(content, edit) ==
    Splice(content, StartLine(edit), EndLine(edit) - StartLine(edit),
           Split(NewContent(edit)))

\* ApplyEdit that inserts nothing for an empty or missing content: the
\* range is deleted
ApplyEditDeleteOnEmpty(content, edit) ==
    Splice(content, StartLine(edit), EndLine(edit) - StartLine(edit) + 1,
           IF NewContent(edit) = <<>> THEN <<>> ELSE Split(NewContent(edit)))

\* the body of the edit loop: session.content.splice(startLine,
\* endLine - startLine + 1, ...newLines)
ApplyEdit(content, edit) ==
    Splice(content, StartLine(edit), EndLine(edit) - StartLine(edit) + 1,
           Split(NewContent(edit)))

\* ApplyEditList that applies every edit to the content the call found: the
\* last edit wins
ApplyEditListLastWins(content, edits) ==
    IF Len(edits) = 0 THEN content
    ELSE ApplyEdit(content, edits[Len(edits)])

RECURSIVE ApplyEditList(_, _)
\* for (const edit of edits): each edit sees the content the earlier ones left
ApplyEditList(content, edits) ==
    IF Len(edits) = 0 THEN content
    ELSE ApplyEditList(ApplyEdit(content, Head(edits)), Tail(edits))

RECURSIVE MaxLenDuring(_, _)
\* the longest content the edit loop passes through
MaxLenDuring(content, edits) ==
    IF Len(edits) = 0 THEN Len(content)
    ELSE Max(Len(content), MaxLenDuring(ApplyEdit(content, Head(edits)), Tail(edits)))

\* call.request?.edits || []
RequestEdits(req) == IF "edits" \in DOMAIN req THEN req.edits ELSE <<>>

\* ApplyEdits over a content array shared by the sessions of one file: the
\* edits show in every session opened on the same path
ApplyEditsShared(req) ==
    /\ log' = <<Called("applyEdits", req)>> \o
              (IF req.diff_id \notin DOMAIN diffSessions
                  THEN <<[tag |-> "applyEdits.notFound"]>>
                  ELSE [i \in 1..Len(RequestEdits(req)) |-> [tag |-> "applyEdits.applied"]])
    /\ IF req.diff_id \notin DOMAIN diffSessions
          THEN UNCHANGED diffSessions
          ELSE LET session == diffSessions[req.diff_id]
                   content == ApplyEditList(session.content, RequestEdits(req))
               IN  diffSessions' =
                      [id \in DOMAIN diffSessions |->
                          IF diffSessions[id].originalPath = session.originalPath
                             THEN [diffSessions[id] EXCEPT !.content = content]
                             ELSE diffSessions[id]]
    /\ reply' = EmptyReply
    /\ UNCHANGED <<diffCounter, fs, envWorkspace, returnedIds>>
    /\ wire' = Answered

\* ApplyEdits that tells the caller how many edits it applied
ApplyEditsCount(req) ==
    /\ log' = <<Called("applyEdits", req)>> \o
              (IF req.diff_id \notin DOMAIN diffSessions
                  THEN <<[tag |-> "applyEdits.notFound"]>>
                  ELSE [i \in 1..Len(RequestEdits(req)) |-> [tag |-> "applyEdits.applied"]])
    /\ IF req.diff_id \notin DOMAIN diffSessions
          THEN /\ UNCHANGED diffSessions
               /\ reply' = EmptyReply
          ELSE /\ diffSessions' = [diffSessions EXCEPT ![req.diff_id].content =
                      ApplyEditList(diffSessions[req.diff_id].content, RequestEdits(req))]
               /\ reply' = [err |-> Null, value |-> [shape |-> "applied",
                                                     applied |-> Len(RequestEdits(req))]]
    /\ UNCHANGED <<diffCounter, fs, envWorkspace, returnedIds>>
    /\ wire' = Answered

\* ApplyEdits that reports a missing session to the caller as an error
ApplyEditsStrict(req) ==
    /\ log' = <<Called("applyEdits", req)>> \o
              (IF req.diff_id \notin DOMAIN diffSessions
                  THEN <<[tag |-> "applyEdits.notFound"]>>
                  ELSE [i \in 1..Len(RequestEdits(req)) |-> [tag |-> "applyEdits.applied"]])
    /\ IF req.diff_id \notin DOMAIN diffSessions
          THEN /\ UNCHANGED diffSessions
               /\ reply' = [err |-> "NOT_FOUND", value |-> [shape |-> "none"]]
          ELSE /\ diffSessions' = [diffSessions EXCEPT ![req.diff_id].content =
                      ApplyEditList(diffSessions[req.diff_id].content, RequestEdits(req))]
               /\ reply' = EmptyReply
    /\ UNCHANGED <<diffCounter, fs, envWorkspace, returnedIds>>
    /\ wire' = Answered

ApplyEdits(req) ==
    /\ log' = <<Called("applyEdits", req)>> \o
              (IF req.diff_id \notin DOMAIN diffSessions
                  THEN <<[tag |-> "applyEdits.notFound"]>>
                  ELSE [i \in 1..Len(RequestEdits(req)) |-> [tag |-> "applyEdits.applied"]])
    /\ IF req.diff_id \notin DOMAIN diffSessions
          THEN UNCHANGED diffSessions
          ELSE LET session == diffSessions[req.diff_id] IN
               diffSessions' = [diffSessions EXCEPT ![req.diff_id].content =
                                   ApplyEditList(session.content, RequestEdits(req))]
    /\ reply' = EmptyReply
    /\ UNCHANGED <<diffCounter, fs, envWorkspace, returnedIds>>
    /\ wire' = Answered

\* ------------------------------------------------------------ saveDocument
RECURSIVE MkdirP(_, _)
\* fs.mkdirSync(dir, { recursive: true }) when it succeeds: every missing
\* directory on the way to dir is created
MkdirP(fsys, dir) ==
    IF Len(dir) = 0 THEN fsys
    ELSE [MkdirP(fsys, Dirname(dir)) EXCEPT ![dir] = DirNode]

\* some proper prefix of p, or p itself, is an existing non-directory
RECURSIVE BlockedByFile(_, _)
BlockedByFile(fsys, p) ==
    \/ fsys[p].kind = "file"
    \/ Len(p) > 0 /\ BlockedByFile(fsys, Dirname(p))

\* how fs.writeFileSync may end when the path itself is writable: "ok";
\* "open": refused before the file is touched (EACCES, EROFS, ...);
\* "write": failed after the file was created or truncated (ENOSPC, EIO, ...)
WriteFaults == {"ok", "open", "write"}

\* the try block of saveDocument: the file system it leaves and whether it
\* threw.  mkdirThrows: the operating system refuses mkdirSync.
SaveTry(fsys, session, mkdirThrows, writeFault) ==
    LET p    == session.originalPath
        dir  == Dirname(p)
        data == Utf8Encode(Join(session.content))
    IN  IF ~ExistsSync(fsys, dir) /\ (mkdirThrows \/ BlockedByFile(fsys, dir))
           THEN [fs |-> fsys, threw |-> TRUE]
        ELSE LET fs1 == IF ~ExistsSync(fsys, dir) THEN MkdirP(fsys, dir) ELSE fsys IN
             IF writeFault = "open" \/ fs1[p].kind = "dir" \/ fs1[dir].kind # "dir"
                THEN [fs |-> fs1, threw |-> TRUE]
             ELSE IF writeFault = "write"
                THEN [fs |-> [fs1 EXCEPT ![p] = FileNode(<<>>)], threw |-> TRUE]
             ELSE [fs |-> [fs1 EXCEPT ![p] = FileNode(data)], threw |-> FALSE]

\* SaveDocument that closes the session once the file is written
SaveDocumentConsumes(req, mkdirThrows, writeFault) ==
    /\ IF req.diff_id \notin DOMAIN diffSessions
          THEN /\ log' = <<Called("saveDocument", req),
                           [tag |-> "saveDocument.notFound"]>>
               /\ UNCHANGED <<fs, diffSessions>>
          ELSE LET session == diffSessions[req.diff_id]
                   try     == SaveTry(fs, session, mkdirThrows, writeFault)
               IN  /\ fs' = try.fs
                   /\ diffSessions' = IF try.threw THEN diffSessions
                                      ELSE MapDelete(diffSessions, req.diff_id)
                   /\ log' = <<Called("saveDocument", req),
                               IF try.threw
                                  THEN [tag |-> "saveDocument.failed",
                                        path |-> session.originalPath]
                                  ELSE [tag |-> "saveDocument.saved",
                                        path |-> session.originalPath]>>
    /\ reply' = EmptyReply
    /\ UNCHANGED <<diffCounter, envWorkspace, returnedIds>>
    /\ wire' = Answered

\* SaveDocument without the try/catch: a throw of the try block reaches the caller
SaveDocumentNoCatch(req, mkdirThrows, writeFault) ==
    /\ IF req.diff_id \notin DOMAIN diffSessions
          THEN /\ log' = <<Called("saveDocument", req),
                           [tag |-> "saveDocument.notFound"]>>
               /\ reply' = EmptyReply
               /\ UNCHANGED fs
          ELSE LET session == diffSessions[req.diff_id]
                   try     == SaveTry(fs, session, mkdirThrows, writeFault)
               IN  /\ fs' = try.fs
                   /\ log' = <<Called("saveDocument", req),
                               IF try.threw
                                  THEN [tag |-> "saveDocument.failed",
                                        path |-> session.originalPath]
                                  ELSE [tag |-> "saveDocument.saved",
                                        path |-> session.originalPath]>>
                   /\ reply' = IF try.threw
                                  THEN [err |-> "UNKNOWN", value |-> [shape |-> "none"]]
                                  ELSE EmptyReply
    /\ UNCHANGED <<diffSessions, diffCounter, envWorkspace, returnedIds>>
    /\ wire' = Answered

SaveDocument(req, mkdirThrows, writeFault) ==
    /\ IF req.diff_id \notin DOMAIN diffSessions
          THEN /\ log' = <<Called("saveDocument", req),
                           [tag |-> "saveDocument.notFound"]>>
               /\ UNCHANGED fs
          ELSE LET session == diffSessions[req.diff_id]
                   try     == SaveTry(fs, session, mkdirThrows, writeFault)
               IN  /\ fs' = try.fs
                   /\ log' = <<Called("saveDocument", req),
                               IF try.threw
                                  THEN [tag |-> "saveDocument.failed",
                                        path |-> session.originalPath]
                                  ELSE [tag |-> "saveDocument.saved",
                                        path |-> session.originalPath]>>
    /\ reply' = EmptyReply
    /\ UNCHANGED <<diffSessions, diffCounter, envWorkspace, returnedIds>>
    /\ wire' = Answered

\* ---------------------------------------------------------------- closeDiff
\* CloseDiff that acknowledges without deleting
CloseDiffKeep(req) ==
    /\ UNCHANGED diffSessions
    /\ log' = <<Called("closeDiff", req)>> \o
              (IF req.diff_id \in DOMAIN diffSessions
                  THEN <<[tag |-> "closeDiff.closed", id |-> req.diff_id]>>
                  ELSE <<>>)
    /\ reply' = EmptyReply
    /\ UNCHANGED <<diffCounter, fs, envWorkspace, returnedIds>>
    /\ wire' = Answered

CloseDiff(req) ==
    /\ diffSessions' = MapDelete(diffSessions, req.diff_id)
    /\ log' = <<Called("closeDiff", req)>> \o
              (IF req.diff_id \in DOMAIN diffSessions
                  THEN <<[tag |-> "closeDiff.closed", id |-> req.diff_id]>>
                  ELSE <<>>)
    /\ reply' = EmptyReply
    /\ UNCHANGED <<diffCounter, fs, envWorkspace, returnedIds>>
    /\ wire' = Answered

\* -------------------------------------------------- the other handlers
\* server.addService(..., createMockService(serviceName))
Services == {"WorkspaceService", "WindowService", "EnvService", "DiffService",
             "TestingService"}

\* "/test-workspace"
DefaultWorkspaceDir == <<"test-workspace">>

\* process.env.TEST_HOSTBRIDGE_WORKSPACE_DIR || "/test-workspace"
QueryWorkspaceDir(env) == IF env.set THEN env.value ELSE DefaultWorkspaceDir

\* os.hostname()
Hostname == "host"

\* call.request?.path || ""
RequestPath(req) ==
    IF "path" \in DOMAIN req THEN req.path ELSE [abs |-> FALSE, parts |-> <<>>]

\* a handler that logs the call, answers callback(null, value) and returns
Answer(service, method, req, value) ==
    /\ log' = <<CalledOn(service, method, req)>>
    /\ reply' = [err |-> Null, value |-> value]
    /\ wire' = Answered
    /\ UNCHANGED <<diffSessions, diffCounter, fs, envWorkspace, returnedIds>>

GetWorkspacePaths(service, req) ==
    Answer(service, "getWorkspacePaths", req,
           [shape |-> "paths", paths |-> <<QueryWorkspaceDir(envWorkspace)>>])

GetMachineId(service, req) ==
    Answer(service, "getMachineId", req,
           [shape |-> "value", value |-> "fake-machine-id-" \o Hostname])

GetTelemetrySettings(service, req) ==
    Answer(service, "getTelemetrySettings", req,
           [shape |-> "isEnabled", isEnabled |-> TelemetryDisabled])

ClipboardReadText(service, req) ==
    Answer(service, "clipboardReadText", req, [shape |-> "value", value |-> ""])

GetWebviewHtml(service, req) ==
    Answer(service, "getWebviewHtml", req,
           [shape |-> "html", html |-> "<html><body>Fake Webview</body></html>"])

ShowTextDocument(service, req) ==
    Answer(service, "showTextDocument", req,
           [shape |-> "editor", document_path |-> RequestPath(req),
            view_column |-> 1, is_active |-> TRUE])

GetDocumentText(service, req) ==
    Answer(service, "getDocumentText", req, [shape |-> "content", content |-> ""])

\* case "getOpenTabs": case "getVisibleTabs": case "showOpenDialogue":
TabMethods == {"getOpenTabs", "getVisibleTabs", "showOpenDialogue"}

GetTabs(service, method, req) ==
    /\ method \in TabMethods
    /\ Answer(service, method, req, [shape |-> "paths", paths |-> <<>>])

GetDiagnostics(service, req) ==
    Answer(service, "getDiagnostics", req,
           [shape |-> "file_diagnostics", file_diagnostics |-> <<>>])

\* SubscribeToTelemetrySettings without its return: the call falls through
\* to the callback below the switch
SubscribeFallsThrough(service, req) ==
    /\ log' = <<CalledOn(service, "subscribeToTelemetrySettings", req)>>
    /\ reply' = EmptyReply
    /\ wire' = [callbacks |-> 1, written |-> 0, ended |-> TRUE]
    /\ UNCHANGED <<diffSessions, diffCounter, fs, envWorkspace, returnedIds>>

\* call.end(); return: nothing is written and the callback is not invoked
SubscribeToTelemetrySettings(service, req) ==
    /\ log' = <<CalledOn(service, "subscribeToTelemetrySettings", req)>>
    /\ reply' = NoReply
    /\ wire' = [callbacks |-> 0, written |-> 0, ended |-> TRUE]
    /\ UNCHANGED <<diffSessions, diffCounter, fs, envWorkspace, returnedIds>>

\* the method names some case of the switch handles
SwitchMethods ==
    {"getWorkspacePaths", "getMachineId", "getTelemetrySettings", "clipboardReadText",
     "getWebviewHtml", "showTextDocument", "openDiff", "getDocumentText",
     "getDiagnostics", "applyEdits", "saveDocument", "closeDiff",
     "subscribeToTelemetrySettings"} \cup TabMethods

\* DefaultMethod that refuses a method it has no case for
DefaultUnimplemented(service, method, req) ==
    /\ method \notin SwitchMethods
    /\ log' = <<CalledOn(service, method, req)>>
    /\ reply' = [err |-> "UNIMPLEMENTED", value |-> [shape |-> "none"]]
    /\ wire' = Answered
    /\ UNCHANGED <<diffSessions, diffCounter, fs, envWorkspace, returnedIds>>

\* no case of the switch matches: callback(null, {}) below the switch, for a
\* call that comes with a callback
DefaultMethod(service, method, req) ==
    /\ method \notin SwitchMethods
    /\ Answer(service, method, req, [shape |-> "empty"])

\* ------------------------------------------------------------------ inputs
\* diff_id values a caller may send: the strings "diff_<pid>_<i>" for i in
\* 0..n (0 is never allocated) and a request without diff_id
ReqIds(n) == {"diff_" \o ToString(Pid) \o "_" \o ToString(i) : i \in 0..n} \cup {Undefined}

RECURSIVE SeqsUpTo(_, _)
\* the sequences over S of length at most n
SeqsUpTo(S, n) ==
    IF n = 0 THEN {<<>>}
    ELSE LET shorter == SeqsUpTo(S, n - 1) IN
         shorter \cup {Append(q, e) : q \in shorter, e \in S}

\* applyEdits requests: one without edits, and every edit list in L
EditRequests(ids, L) ==
    {[diff_id |-> Undefined]}
    \cup {[diff_id |-> id, edits |-> es] : id \in ids, es \in L}

IdRequests(ids) == {[diff_id |-> id] : id \in ids}

\* a file system over AllPaths: / and /ws are directories
MkFs(f, d, g) ==
    [p \in AllPaths |->
        IF p \in {<<>>, WsDir} THEN DirNode
        ELSE IF p = FileF THEN f
        ELSE IF p = DirD THEN d
        ELSE g]

\* the edit loop stays within MaxLines
WithinLines(req) ==
    req.diff_id \in DOMAIN diffSessions =>
        MaxLenDuring(diffSessions[req.diff_id].content, RequestEdits(req)) <= MaxLines

\* ------------------------------------------- Spec: the session lifecycle
\* Several sessions over a small file system: /ws/f holds "a\nb", /ws/d is
\* missing.  Reads succeed; a save may fail in mkdirSync or be refused by
\* writeFileSync (SpecIO has every fault).
Edits == { [start_line |-> 1, end_line |-> 1, content |-> <<"B">>] }

InitFs == { MkFs(FileNode(<<"a", NL, "b">>), NoNode, NoNode) }

\* the paths opened: the relative "f" and the absolute /ws/d/g
ReqPathsL == { [abs |-> FALSE, parts |-> <<"f">>], [abs |-> TRUE, parts |-> FileG] }

Init ==
    /\ diffSessions = EmptyMap
    /\ diffCounter = 0
    /\ fs \in InitFs
    /\ envWorkspace = [set |-> FALSE]
    /\ reply = NoReply
    /\ log = <<>>
    /\ returnedIds = {}
    /\ wire = NotAnswered
    /\ hist = EmptyMap

Next ==
    \/ \E reqPath \in ReqPathsL :
          diffCounter < MaxOpens /\ OpenDiff(reqPath, FALSE) /\ UNCHANGED hist
    \/ \E req \in EditRequests(ReqIds(MaxOpens), SeqsUpTo(Edits, MaxEdits)) :
          WithinLines(req) /\ ApplyEdits(req) /\ UNCHANGED hist
    \/ \E req \in IdRequests(ReqIds(MaxOpens)), mkdirThrows \in BOOLEAN, writeFault \in {"ok", "open"} :
          SaveDocument(req, mkdirThrows, writeFault) /\ UNCHANGED hist
    \/ \E req \in IdRequests(ReqIds(MaxOpens)) : CloseDiff(req) /\ UNCHANGED hist

Spec == Init /\ [][Next]_vars

\* ------------------------------------- SpecIO: opening and saving files
\* Every shape of file system and configuration and every fault; a session
\* is opened when no other is open.

FileTexts == { <<>>, <<"a">>, <<"a", NL, "b">>, <<"a", NL>>, <<NL>>, <<BadByte>>,
               <<"a", NL, BadByte>> }

\* /ws/d and /ws/d/g: d missing; d an empty directory; d a directory holding
\* file g; d a plain file
InitDG == { <<NoNode, NoNode>>, <<DirNode, NoNode>>,
            <<DirNode, FileNode(<<"a", NL, "b">>)>>, <<FileNode(<<>>), NoNode>> }

InitFsIO ==
    { MkFs(f, dg[1], dg[2]) :
        f \in {NoNode} \cup {FileNode(t) : t \in FileTexts}, dg \in InitDG }

InitIO ==
    /\ diffSessions = EmptyMap
    /\ diffCounter = 0
    /\ fs \in InitFsIO
    /\ envWorkspace \in {[set |-> FALSE], [set |-> TRUE, value |-> WsDir]}
    /\ reply = NoReply
    /\ log = <<>>
    /\ returnedIds = {}
    /\ wire = NotAnswered
    /\ hist = EmptyMap

NextIO ==
    \/ \E reqPath \in ReqPaths, readThrows \in BOOLEAN :
          /\ diffCounter < MaxOpens1
          /\ diffSessions = EmptyMap
          /\ OpenDiff(reqPath, readThrows)
          /\ UNCHANGED hist
    \/ \E req \in EditRequests(ReqIds(MaxOpens1), SeqsUpTo(Edits, MaxEdits)) :
          WithinLines(req) /\ ApplyEdits(req) /\ UNCHANGED hist
    \/ \E req \in IdRequests(ReqIds(MaxOpens1)), mkdirThrows \in BOOLEAN, writeFault \in WriteFaults :
          SaveDocument(req, mkdirThrows, writeFault) /\ UNCHANGED hist
    \/ \E req \in IdRequests(ReqIds(MaxOpens1)) : CloseDiff(req) /\ UNCHANGED hist

SpecIO == InitIO /\ [][NextIO]_vars

\* ------------------------------------------- SpecEdit: the edit loop
\* The file "a\nb\nc" and every edit of EditsE; a session is opened when no
\* other is open.
MaxLine   == 2      \* greatest start_line / end_line sent

\* the line numbers sent: one negative, and 0..MaxLine
LineNumbers == {-1} \cup 0..MaxLine

EditTexts == { <<>>, <<"B">>, <<"B", NL, "C">> }

\* edits with every field, without end_line, with end_line only, with no field
EditsE ==
    { [start_line |-> s, end_line |-> e, content |-> t] :
        s \in LineNumbers, e \in LineNumbers, t \in EditTexts }
    \cup { [start_line |-> s, content |-> t] : s \in LineNumbers, t \in EditTexts }
    \cup { [end_line |-> e] : e \in LineNumbers }
    \cup { [k \in {} |-> k] }

\* the edits sent in lists of two or more
EditsL == { [start_line |-> 1, end_line |-> 1, content |-> <<"B">>],
            [start_line |-> 1, end_line |-> 2, content |-> <<"C">>],
            [start_line |-> -1, content |-> <<"B", NL, "C">>] }

EditListsE == {<<e>> : e \in EditsE} \cup SeqsUpTo(EditsL, MaxEdits)

InitE ==
    /\ diffSessions = EmptyMap
    /\ diffCounter = 0
    /\ fs = MkFs(FileNode(<<"a", NL, "b", NL, "c">>), NoNode, NoNode)
    /\ envWorkspace = [set |-> FALSE]
    /\ reply = NoReply
    /\ log = <<>>
    /\ returnedIds = {}
    /\ wire = NotAnswered
    /\ hist = EmptyMap

NextE ==
    \/ \E reqPath \in ReqPathsL :
          /\ diffCounter < MaxOpens1
          /\ diffSessions = EmptyMap
          /\ OpenDiff(reqPath, FALSE)
          /\ UNCHANGED hist
    \/ \E req \in EditRequests(ReqIds(MaxOpens1), EditListsE) :
          /\ req.diff_id \in DOMAIN diffSessions \/ Len(RequestEdits(req)) = 0
          /\ WithinLines(req)
          /\ ApplyEdits(req)
          /\ UNCHANGED hist
    \/ \E req \in IdRequests(ReqIds(MaxOpens1)) :
          req.diff_id \in DOMAIN diffSessions /\ CloseDiff(req) /\ UNCHANGED hist

SpecEdit == InitE /\ [][NextE]_vars

\* ------------------------------------- SpecCalls: every handler of the switch
\* Calls to every case of the switch and to methods it has no case for, on
\* every service, with the workspace variable set and unset; a session is
\* opened when no other is open.

\* methods without a case of their own
OtherMethods == {"showMessage", "openFolder", "scrollDiff"}

\* requests sent to the handlers that read at most request.path
CallRequests ==
    { EmptyMap, [path |-> [abs |-> FALSE, parts |-> <<"f">>]],
      [diff_id |-> "diff_" \o ToString(Pid) \o "_1"] }

InitC ==
    /\ diffSessions = EmptyMap
    /\ diffCounter = 0
    /\ fs \in InitFs
    /\ envWorkspace \in {[set |-> FALSE], [set |-> TRUE, value |-> WsDir]}
    /\ reply = NoReply
    /\ log = <<>>
    /\ returnedIds = {}
    /\ wire = NotAnswered
    /\ hist = EmptyMap

NextC ==
    \/ \E reqPath \in ReqPaths :
          /\ diffCounter < MaxOpens1
          /\ diffSessions = EmptyMap
          /\ OpenDiff(reqPath, FALSE)
          /\ UNCHANGED hist
    \/ \E req \in EditRequests(ReqIds(MaxOpens1), SeqsUpTo(Edits, MaxEdits)) :
          WithinLines(req) /\ ApplyEdits(req) /\ UNCHANGED hist
    \/ \E req \in IdRequests(ReqIds(MaxOpens1)) :
          SaveDocument(req, FALSE, "ok") /\ UNCHANGED hist
    \/ \E req \in IdRequests(ReqIds(MaxOpens1)) : CloseDiff(req) /\ UNCHANGED hist
    \/ \E service \in Services, req \in CallRequests :
          GetWorkspacePaths(service, req) /\ UNCHANGED hist
    \/ \E service \in Services, req \in CallRequests :
          GetMachineId(service, req) /\ UNCHANGED hist
    \/ \E service \in Services, req \in CallRequests :
          GetTelemetrySettings(service, req) /\ UNCHANGED hist
    \/ \E service \in Services, req \in CallRequests :
          ClipboardReadText(service, req) /\ UNCHANGED hist
    \/ \E service \in Services, req \in CallRequests :
          GetWebviewHtml(service, req) /\ UNCHANGED hist
    \/ \E service \in Services, req \in CallRequests :
          ShowTextDocument(service, req) /\ UNCHANGED hist
    \/ \E service \in Services, req \in CallRequests :
          GetDocumentText(service, req) /\ UNCHANGED hist
    \/ \E service \in Services, method \in TabMethods, req \in CallRequests :
          GetTabs(service, method, req) /\ UNCHANGED hist
    \/ \E service \in Services, req \in CallRequests :
          GetDiagnostics(service, req) /\ UNCHANGED hist
    \/ \E service \in Services, req \in CallRequests :
          SubscribeToTelemetrySettings(service, req) /\ UNCHANGED hist
    \/ \E service \in Services, method \in OtherMethods, req \in CallRequests :
          DefaultMethod(service, method, req) /\ UNCHANGED hist

SpecCalls == InitC /\ [][NextC]_vars

\* --------------------------------- SpecHist: the edits a session was sent
\* SpecEdit's file and the edits of EditsH, with hist recording for every
\* open session the content openDiff stored and, in order, every edit of
\* every applyEdits call that found the session.
EditsH == EditsL \cup { [k \in {} |-> k] }

\* hist after openDiff stored `content` under id
HistOpened(h, id, content) == MapSet(h, id, [opened |-> content, edits |-> <<>>])

\* hist after an applyEdits call for id
HistEdited(h, id, edits) ==
    IF id \in DOMAIN h THEN [h EXCEPT ![id].edits = @ \o edits] ELSE h

\* no session is sent more than MaxHist edits
WithinHist(req) ==
    req.diff_id \in DOMAIN diffSessions =>
        Len(hist[req.diff_id].edits) + Len(RequestEdits(req)) <= MaxHist

NextH ==
    \/ \E reqPath \in ReqPathsL :
          /\ diffCounter < MaxOpens1
          /\ diffSessions = EmptyMap
          /\ OpenDiff(reqPath, FALSE)
          /\ hist' = HistOpened(hist, reply'.value.diff_id,
                                diffSessions'[reply'.value.diff_id].content)
    \/ \E req \in EditRequests(ReqIds(MaxOpens1), SeqsUpTo(EditsH, MaxEdits)) :
          /\ req.diff_id \in DOMAIN diffSessions \/ Len(RequestEdits(req)) = 0
          /\ WithinLines(req)
          /\ WithinHist(req)
          /\ ApplyEdits(req)
          /\ hist' = IF req.diff_id \in DOMAIN diffSessions
                        THEN HistEdited(hist, req.diff_id, RequestEdits(req))
                        ELSE hist
    \/ \E req \in IdRequests(ReqIds(MaxOpens1)) :
          /\ req.diff_id \in DOMAIN diffSessions
          /\ CloseDiff(req)
          /\ hist' = MapDelete(hist, req.diff_id)

SpecHist == InitE /\ [][NextH]_vars

\* ================================================================== claims
\* the last call handled was `method`
LastCall(method) == Len(log) > 0 /\ log[1].method = method

\* the last call handled was `method`, seen from the step that handles it
LastCallNext(method) == Len(log') > 0 /\ log'[1].method = method

\* the range an edit names: endLine is startLine when omitted
RangeStart(edit) == edit.start_line

RangeEnd(edit) == IF "end_line" \in DOMAIN edit THEN edit.end_line ELSE edit.start_line

\* an edit {startLine, [endLine,] newText} whose range lies inside content:
\* 0 <= startLine <= endLine < length
ValidRange(content, edit) ==
    /\ {"start_line", "content"} \subseteq DOMAIN edit
    /\ 0 <= RangeStart(edit)
    /\ RangeStart(edit) <= RangeEnd(edit)
    /\ RangeEnd(edit) < Len(content)

\* content with the 0-based inclusive range [s, e] replaced by lines, stated
\* line by line
ReplaceRange(content, s, e, lines) ==
    [i \in 1..(Len(content) - (e - s + 1) + Len(lines)) |->
        IF i <= s THEN content[i]
        ELSE IF i <= s + Len(lines) THEN lines[i - s]
        ELSE content[i - Len(lines) + (e - s + 1)]]

\* lines is text cut at every "\n": no line holds a "\n" and joining the
\* lines with "\n" gives text back
IsSplitOf(lines, text) ==
    /\ Len(lines) >= 1
    /\ \A i \in 1..Len(lines) : \A j \in 1..Len(lines[i]) : lines[i][j] # NL
    /\ Join(lines) = text

\* the line sequences the texts of EditTexts can be cut into
LineSeqs == SeqsUpTo(SeqsUpTo({"B", "C"}, 1), 2)

\* the lines of each text an edit may carry
LinesOfText == [t \in {<<>>, <<"B">>, <<"C">>, <<"B", NL, "C">>} |->
                   CHOOSE lines \in LineSeqs : IsSplitOf(lines, t)]

\* the lines of an edit's newText
TextLines(edit) == LinesOfText[edit.content]

RECURSIVE AllValid(_, _)
\* every edit of the list is in range for the content it meets
AllValid(content, edits) ==
    \/ Len(edits) = 0
    \/ /\ ValidRange(content, Head(edits))
       /\ AllValid(ReplaceRange(content, RangeStart(Head(edits)), RangeEnd(Head(edits)),
                                TextLines(Head(edits))),
                   Tail(edits))

RECURSIVE ReplaceAll(_, _)
\* the ranges replaced one after the other
ReplaceAll(content, edits) ==
    IF Len(edits) = 0 THEN content
    ELSE ReplaceAll(ReplaceRange(content, RangeStart(Head(edits)), RangeEnd(Head(edits)),
                                 TextLines(Head(edits))),
                    Tail(edits))

\* C1: applyEdits on an existing session, with every edit in range for the
\* content it meets, leaves the content with each inclusive range
\* [startLine, endLine] replaced in list order by the lines of the edit's text
\* (endLine = startLine when omitted), the lines outside the range kept in order.
C1_EditsReplaceRanges ==
    [][LastCallNext("applyEdits") =>
          LET req == log'[1].request IN
          ( /\ req.diff_id \in DOMAIN diffSessions
            /\ AllValid(diffSessions[req.diff_id].content, RequestEdits(req)) )
          => diffSessions'[req.diff_id].content =
                 ReplaceAll(diffSessions[req.diff_id].content, RequestEdits(req))]_vars

\* C1 witness: [a,b,c] edited by {1,1,"B"} is now [a,B,c]
C1_Witness ==
    /\ LastCall("applyEdits")
    /\ Len(log) = 2 /\ log[2].tag = "applyEdits.applied"
    /\ \E id \in DOMAIN diffSessions :
          diffSessions[id].content = << <<"a">>, <<"B">>, <<"c">> >>

\* the diff_id of the call a step handles
NextId == log'[1].request.diff_id

\* C2: applyEdits, saveDocument and closeDiff with a diff_id that is not in
\* the table answer callback(null, {}) and leave the table and the file
\* system as they were.
C2_UnknownIdIsNoOp ==
    [][( /\ \/ LastCallNext("applyEdits")
            \/ LastCallNext("saveDocument")
            \/ LastCallNext("closeDiff")
         /\ NextId \notin DOMAIN diffSessions )
       => /\ reply' = EmptyReply
          /\ diffSessions' = diffSessions
          /\ fs' = fs]_vars

\* C2 witness: saveDocument for an id never allocated, other sessions open
C2_Witness ==
    /\ LastCall("saveDocument")
    /\ log[2].tag = "saveDocument.notFound"
    /\ log[1].request.diff_id \notin returnedIds
    /\ diffSessions # EmptyMap
    /\ reply = EmptyReply

\* C3: the id openDiff returns is in the table; an id leaves the table only
\* in the closeDiff step that names it; a returned id that has left the
\* table never comes back, and applyEdits / saveDocument with it change
\* neither the table nor the file system.
C3_SessionLifecycle ==
    [][/\ LastCallNext("openDiff") => reply'.value.diff_id \in DOMAIN diffSessions'
       /\ \A id \in DOMAIN diffSessions :
             id \notin DOMAIN diffSessions' => LastCallNext("closeDiff") /\ NextId = id
       /\ \A id \in returnedIds \ DOMAIN diffSessions :
             /\ id \notin DOMAIN diffSessions'
             /\ ( (LastCallNext("applyEdits") \/ LastCallNext("saveDocument")) /\ NextId = id )
                   => diffSessions' = diffSessions /\ fs' = fs]_vars

\* C3 witness: applyEdits on a closed session while another is still open
C3_Witness ==
    /\ LastCall("applyEdits")
    /\ log[1].request.diff_id \in returnedIds \ DOMAIN diffSessions
    /\ Len(RequestEdits(log[1].request)) > 0
    /\ diffSessions # EmptyMap

\* C4: the id an openDiff returns was never returned before, closed sessions
\* included, and is not a key of the table it is added to.
C4_FreshIds ==
    [][LastCallNext("openDiff") =>
          /\ reply'.value.diff_id \notin returnedIds
          /\ reply'.value.diff_id \notin DOMAIN diffSessions]_vars

\* C4 witness: an openDiff after an earlier session was opened and closed
C4_Witness ==
    /\ LastCall("openDiff")
    /\ Cardinality(returnedIds) = 2
    /\ Cardinality(DOMAIN diffSessions) = 1

\* C5: closeDiff answers callback(null, {}) and leaves the id out of the
\* table, every other session and the file system as they were; when the id
\* was not in the table the whole table is as it was.
C5_CloseIdempotent ==
    [][LastCallNext("closeDiff") =>
          /\ reply' = EmptyReply
          /\ NextId \notin DOMAIN diffSessions'
          /\ fs' = fs
          /\ DOMAIN diffSessions' = DOMAIN diffSessions \ {NextId}
          /\ \A id \in DOMAIN diffSessions' : diffSessions'[id] = diffSessions[id]
          /\ NextId \notin DOMAIN diffSessions => diffSessions' = diffSessions]_vars

\* C5 witness: a second closeDiff of a closed session, another one still open
C5_Witness ==
    /\ LastCall("closeDiff")
    /\ Len(log) = 1
    /\ log[1].request.diff_id \in returnedIds
    /\ diffSessions # EmptyMap

\* C6: openDiff leaves the file system as it was; on a path that does not
\* exist the new session's content is the empty sequence; on a file that was
\* read it is the file's text cut at every "\n" (an empty file gives [""]).
C6_OpenContent ==
    [][LastCallNext("openDiff") =>
          LET session == diffSessions'[reply'.value.diff_id]
              p       == session.originalPath
          IN  /\ fs' = fs
              /\ fs[p].kind = "none" => session.content = <<>>
              /\ (fs[p].kind = "file" /\ Len(log') = 2) =>
                     IsSplitOf(session.content, Utf8Decode(fs[p].data))]_vars

\* C6 witness: a session opened on an existing empty file holds [""]
C6_Witness ==
    /\ LastCall("openDiff")
    /\ Len(log) = 2
    /\ \E id \in DOMAIN diffSessions :
          /\ fs[diffSessions[id].originalPath] = FileNode(<<>>)
          /\ diffSessions[id].content = << <<>> >>

\* this step is the saveDocument of the session the previous call opened
SaveRightAfterOpen ==
    /\ LastCall("openDiff")
    /\ LastCallNext("saveDocument")
    /\ NextId = reply.value.diff_id
    /\ NextId \in DOMAIN diffSessions

RECURSIVE ValidUtf8(_)
\* bytes is well-formed UTF-8
ValidUtf8(bytes) ==
    \/ Len(bytes) = 0
    \/ Len(bytes) >= 3 /\ SubSeq(bytes, 1, 3) = RBytes /\ ValidUtf8(SubSeq(bytes, 4, Len(bytes)))
    \/ Head(bytes) \notin {BadByte, "xEF", "xBF", "xBD"} /\ ValidUtf8(Tail(bytes))

\* C7 as stated: for every existing file, openDiff followed at once by
\* saveDocument of that session leaves the file's content as it was.
C7_RoundTripEveryFile ==
    [][SaveRightAfterOpen =>
          LET p == diffSessions[NextId].originalPath IN
          fs[p].kind = "file" => fs'[p] = fs[p]]_vars

\* C7 amended: for every existing file that is well-formed UTF-8 and that
\* openDiff read without error, openDiff followed at once by a saveDocument
\* of that session whose write does not fail leaves the file's content as it
\* was.
C7_RoundTripReadableText ==
    [][SaveRightAfterOpen =>
          LET p == diffSessions[NextId].originalPath IN
          ( /\ fs[p].kind = "file"
            /\ ValidUtf8(fs[p].data)
            /\ Len(log) = 2
            /\ log'[2].tag = "saveDocument.saved" )
              => fs'[p] = fs[p]]_vars

\* C7 witness: "a\n" was opened and saved, and the file still holds "a\n"
C7_Witness ==
    /\ LastCall("saveDocument")
    /\ log[2].tag = "saveDocument.saved"
    /\ log[1].request.diff_id \in DOMAIN diffSessions
    /\ LET session == diffSessions[log[1].request.diff_id] IN
          /\ session.content = << <<"a">>, <<>> >>
          /\ fs[session.originalPath] = FileNode(<<"a", NL>>)

\* q is a proper ancestor directory of p
IsAncestor(q, p) == Len(q) < Len(p) /\ SubSeq(p, 1, Len(q)) = q

\* C8: saveDocument on an existing session answers callback(null, {}) and
\* leaves the table as it was; when the save went through, originalPath
\* holds the lines joined with "\n" inside an existing directory; either way
\* nothing else changed but missing ancestor directories created.  An
\* openDiff whose read failed still adds a session with empty content and
\* returns its id.
C8_IoFailuresSwallowed ==
    [][/\ (LastCallNext("saveDocument") /\ NextId \in DOMAIN diffSessions) =>
             LET session == diffSessions[NextId]
                 p       == session.originalPath
             IN  /\ reply' = EmptyReply
                 /\ diffSessions' = diffSessions
                 /\ log'[2].tag \in {"saveDocument.saved", "saveDocument.failed"}
                 /\ log'[2].tag = "saveDocument.saved" =>
                        /\ fs'[p] = FileNode(Utf8Encode(Join(session.content)))
                        /\ fs'[Dirname(p)].kind = "dir"
                 /\ \A q \in AllPaths \ {p} :
                        \/ fs'[q] = fs[q]
                        \/ fs[q].kind = "none" /\ fs'[q].kind = "dir" /\ IsAncestor(q, p)
       /\ (LastCallNext("openDiff") /\ log'[2].tag = "openDiff.couldNotRead") =>
             /\ reply'.err = Null
             /\ reply'.value.diff_id \in DOMAIN diffSessions'
             /\ diffSessions'[reply'.value.diff_id].content = <<>>]_vars

\* C8 witness: a save to /ws/d/g created /ws/d, then the write failed; the
\* caller got callback(null, {}) and the session is still in the table
C8_Witness ==
    /\ LastCall("saveDocument")
    /\ log[2].tag = "saveDocument.failed"
    /\ reply = EmptyReply
    /\ log[1].request.diff_id \in DOMAIN diffSessions
    /\ diffSessions[log[1].request.diff_id].originalPath = FileG
    /\ fs[DirD].kind = "dir"
    /\ fs[FileG].kind = "none"

\* A and B name ranges inside content that share a line
RangesIntersect(content, A, B) ==
    /\ ValidRange(content, A)
    /\ ValidRange(content, B)
    /\ Max(RangeStart(A), RangeStart(B)) <= Min(RangeEnd(A), RangeEnd(B))

\* A and B name ranges inside content that start at the same line, and their
\* texts differ in the first line
SameStartOtherText(content, A, B) ==
    /\ "start_line" \in DOMAIN A \cap DOMAIN B
    /\ RangeStart(A) = RangeStart(B)
    /\ ValidRange(content, A)
    /\ ValidRange(content, B)
    /\ TextLines(A)[1] # TextLines(B)[1]

\* this step is an applyEdits on an existing session
EditsExistingSession == LastCallNext("applyEdits") /\ NextId \in DOMAIN diffSessions

\* C9 as stated: for any two edits A, B whose ranges intersect, A then B
\* leaves other content than B then A.  A is the edit the step applies and B
\* any edit of EditsL, or A and B are the two edits the step applies.
C9_OrderSensitiveIntersecting ==
    [][EditsExistingSession =>
          LET edits  == RequestEdits(log'[1].request)
              before == diffSessions[NextId].content
              after  == diffSessions'[NextId].content
          IN  /\ (Len(edits) = 1 /\ ValidRange(before, edits[1])) =>
                    \A B \in EditsL :
                       RangesIntersect(before, edits[1], B) =>
                          ApplyEdit(after, B) # ApplyEditList(before, <<B, edits[1]>>)
              /\ (Len(edits) = 2 /\ RangesIntersect(before, edits[1], edits[2])) =>
                    after # ApplyEditList(before, <<edits[2], edits[1]>>)]_vars

\* C9 amended: for any two edits A, B with ranges inside the content that
\* start at the same line and whose texts differ in their first line, A then
\* B leaves other content than B then A.
C9_OrderSensitiveSameStart ==
    [][EditsExistingSession =>
          LET edits  == RequestEdits(log'[1].request)
              before == diffSessions[NextId].content
              after  == diffSessions'[NextId].content
          IN  /\ (Len(edits) = 1 /\ ValidRange(before, edits[1])) =>
                    \A B \in EditsL :
                       SameStartOtherText(before, edits[1], B) =>
                          ApplyEdit(after, B) # ApplyEditList(before, <<B, edits[1]>>)
              /\ (Len(edits) = 2 /\ SameStartOtherText(before, edits[1], edits[2])) =>
                    after # ApplyEditList(before, <<edits[2], edits[1]>>)]_vars

\* C9 witness: [a,b,c] after [{1,1,"B"}, {1,2,"C"}] is [a,C] (the other
\* order gives [a,B])
C9_Witness ==
    /\ LastCall("applyEdits")
    /\ RequestEdits(log[1].request) =
          << [start_line |-> 1, end_line |-> 1, content |-> <<"B">>],
             [start_line |-> 1, end_line |-> 2, content |-> <<"C">>] >>
    /\ log[1].request.diff_id \in DOMAIN diffSessions
    /\ diffSessions[log[1].request.diff_id].content = << <<"a">>, <<"C">> >>

\* the lines of an edit's newText, [""] when the text is omitted
TextLinesOrEmpty(edit) == IF "content" \in DOMAIN edit THEN TextLines(edit) ELSE << <<>> >>

\* an edit applied with its range clamped into content: startLine into
\* [0, length], endLine down to the last line; an empty range replaces nothing
ClampEdit(content, edit) ==
    LET len == Len(content)
        cs  == Max(0, Min(RangeStart(edit), len))
        ce  == Min(RangeEnd(edit), len - 1)
    IN  ReplaceRange(content, cs, IF ce >= cs THEN ce ELSE cs - 1, TextLinesOrEmpty(edit))

RECURSIVE ClampAll(_, _)
ClampAll(content, edits) ==
    IF Len(edits) = 0 THEN content
    ELSE ClampAll(ClampEdit(content, Head(edits)), Tail(edits))

\* an edit applied with a startLine >= 0 clamped to the length and a negative
\* startLine counted back from the end (length + startLine, at least 0);
\* endLine - startLine + 1 lines from there, as far as there are, are replaced
WrapEdit(content, edit) ==
    LET len == Len(content)
        s   == RangeStart(edit)
        s0  == IF s < 0 THEN Max(len + s, 0) ELSE Min(s, len)
        n   == Min(Max(RangeEnd(edit) - s + 1, 0), len - s0)
    IN  ReplaceRange(content, s0, s0 + n - 1, TextLinesOrEmpty(edit))

RECURSIVE WrapAll(_, _)
WrapAll(content, edits) ==
    IF Len(edits) = 0 THEN content
    ELSE WrapAll(WrapEdit(content, Head(edits)), Tail(edits))

\* every edit of the list names its startLine
AllHaveStart(edits) == \A i \in 1..Len(edits) : "start_line" \in DOMAIN edits[i]

\* C10 as stated: applyEdits answers callback(null, {}) and applies every
\* edit in list order with its range clamped into the content it meets.
C10_OutOfRangeClamped ==
    [][(EditsExistingSession /\ AllHaveStart(RequestEdits(log'[1].request))) =>
          /\ reply' = EmptyReply
          /\ diffSessions'[NextId].content =
                ClampAll(diffSessions[NextId].content, RequestEdits(log'[1].request))]_vars

\* C10 amended: applyEdits answers callback(null, {}) and applies every edit
\* in list order; a startLine past the length is clamped to the length, an
\* endLine past the last line to the last line, endLine < startLine replaces
\* nothing, and a negative startLine is counted back from the end of the
\* content instead of being clamped to 0.
C10_OutOfRangeSpliced ==
    [][(EditsExistingSession /\ AllHaveStart(RequestEdits(log'[1].request))) =>
          /\ reply' = EmptyReply
          /\ diffSessions'[NextId].content =
                WrapAll(diffSessions[NextId].content, RequestEdits(log'[1].request))]_vars

\* C10 witness: [a,b,c] after {-1,-1,"B"} is [a,b,B]
C10_Witness ==
    /\ LastCall("applyEdits")
    /\ RequestEdits(log[1].request) =
          << [start_line |-> -1, end_line |-> -1, content |-> <<"B">>] >>
    /\ log[1].request.diff_id \in DOMAIN diffSessions
    /\ diffSessions[log[1].request.diff_id].content = << <<"a">>, <<"b">>, <<"B">> >>
    /\ reply = EmptyReply


\* C11: the answer to applyEdits does not show whether the session exists:
\* whether diff_id is in the table or not, the call is answered once, with no
\* error and the empty object.
C11_AnswerHidesExistence ==
    [][LastCallNext("applyEdits")
       => \A exists \in BOOLEAN :
             (exists <=> NextId \in DOMAIN diffSessions)
                => reply' = EmptyReply /\ wire' = Answered]_vars

\* an existing session was edited and the caller got the empty object
C11_Witness ==
    /\ LastCall("applyEdits")
    /\ log[1].request.diff_id \in DOMAIN diffSessions
    /\ Len(RequestEdits(log[1].request)) > 0
    /\ Len(log) > 1 /\ log[2].tag = "applyEdits.applied"
    /\ reply = EmptyReply
    /\ wire = Answered


\* C12: every call is answered.  A method the switch has no case for gets,
\* on every service and for every request, one callback with no error and
\* the empty object; a unary method with a case of its own gets one callback
\* with no error and the value its handler built.
C12_EveryMethodAnswered ==
    [][Len(log') > 0 =>
          LET method == log'[1].method IN
          /\ method \notin SwitchMethods
                => reply' = EmptyReply /\ wire' = Answered
          /\ method \in SwitchMethods \ {"subscribeToTelemetrySettings"}
                => /\ wire' = Answered
                   /\ reply'.err = Null
                   /\ reply'.value.shape # "none"
          /\ method \in TabMethods => reply'.value.paths = <<>>
          /\ method = "showTextDocument"
                => reply'.value.document_path = RequestPath(log'[1].request)]_vars

\* a method without a case, called on the WindowService with a request that
\* has a field, was answered with the empty object
C12_Witness ==
    /\ LastCall("openFolder")
    /\ log[1].service = "WindowService"
    /\ DOMAIN log[1].request # {}
    /\ reply = EmptyReply
    /\ wire = Answered

\* C13: the step that handles subscribeToTelemetrySettings ends the stream,
\* writes nothing to it, does not invoke the callback and leaves the session
\* table as it was.
C13_SubscriptionEndsAtOnce ==
    [][LastCallNext("subscribeToTelemetrySettings")
       => /\ wire'.ended
          /\ wire'.written = 0
          /\ wire'.callbacks = 0
          /\ diffSessions' = diffSessions]_vars

\* the subscription was ended while a session was open
C13_Witness ==
    /\ LastCall("subscribeToTelemetrySettings")
    /\ wire.ended
    /\ wire.callbacks = 0
    /\ DOMAIN diffSessions # {}

\* C14: in every configuration openDiff resolves a relative path against the
\* root that getWorkspacePaths returns as its one-element list, and stores an
\* absolute path as it came.
C14_OneWorkspaceRoot ==
    [][/\ LastCallNext("getWorkspacePaths")
            => /\ Len(reply'.value.paths) = 1
               /\ \A reqPath \in ReqPaths :
                     ~reqPath.abs =>
                        FullPath(envWorkspace, reqPath)
                           = reply'.value.paths[1] \o reqPath.parts
       /\ LastCallNext("openDiff")
            => LET reqPath == log'[1].request.path
                   session == diffSessions'[reply'.value.diff_id]
               IN  session.originalPath =
                      IF reqPath.abs THEN reqPath.parts
                      ELSE QueryWorkspaceDir(envWorkspace) \o reqPath.parts]_vars


RECURSIVE OneAtATime(_, _)
\* content after the edits of a list were each sent in a call of their own,
\* the last one last
OneAtATime(content, edits) ==
    IF Len(edits) = 0 THEN content
    ELSE ApplyEditList(OneAtATime(content, SubSeq(edits, 1, Len(edits) - 1)),
                       <<edits[Len(edits)]>>)

\* C15: no edit is dropped and none is applied out of turn: the lines of an
\* open session are those that come of applying to the content openDiff
\* stored every edit of every applyEdits call since, one at a time, in the
\* order of the calls and of the lists; so a call with <<e1, e2>> and a call
\* with <<e1>> followed by one with <<e2>> leave the same lines.
C15_NoEditDropped ==
    \A id \in DOMAIN diffSessions :
        /\ id \in DOMAIN hist
        /\ diffSessions[id].content = OneAtATime(hist[id].opened, hist[id].edits)

\* a call with two edits followed a call with one, and the lines changed
C15_Witness ==
    /\ LastCall("applyEdits")
    /\ Len(RequestEdits(log[1].request)) = 2
    /\ log[1].request.diff_id \in DOMAIN diffSessions
    /\ Len(hist[log[1].request.diff_id].edits) = 3
    /\ diffSessions[log[1].request.diff_id].content
          # hist[log[1].request.diff_id].opened
    /\ log[1].request.edits[1] # log[1].request.edits[2]


\* two saveDocument calls for the same existing session, one right after
\* the other
SaveAfterSave ==
    /\ LastCall("saveDocument")
    /\ LastCallNext("saveDocument")
    /\ NextId = log[1].request.diff_id
    /\ NextId \in DOMAIN diffSessions

\* C16 as stated: saveDocument leaves the session in the table with the path
\* and lines it had, and the second of two saves in a row leaves the file
\* with the content the first left.
C16_SaveKeepsSessionAndFile ==
    [][/\ (LastCallNext("saveDocument") /\ NextId \in DOMAIN diffSessions)
            => diffSessions' = diffSessions
       /\ SaveAfterSave
            => fs'[diffSessions[NextId].originalPath]
                  = fs[diffSessions[NextId].originalPath]]_vars

\* C16: saveDocument leaves the session in the table with the path and lines
\* it had; after a save that wrote the file, one more save that goes through
\* would leave the file system as it is, and the second of two saves in a row
\* that both wrote the file leaves the file with the content the first left.
C16_SaveKeepsSession ==
    [][/\ (LastCallNext("saveDocument") /\ NextId \in DOMAIN diffSessions)
            => /\ diffSessions' = diffSessions
               /\ log'[2].tag = "saveDocument.saved"
                     => LET again == SaveTry(fs', diffSessions'[NextId], FALSE, "ok")
                        IN  ~again.threw /\ again.fs = fs'
       /\ ( /\ SaveAfterSave
            /\ log[2].tag = "saveDocument.saved"
            /\ log'[2].tag = "saveDocument.saved" )
            => fs'[diffSessions[NextId].originalPath]
                  = fs[diffSessions[NextId].originalPath]]_vars

\* an edited session was saved: the file holds the edited lines and the
\* session is still in the table with them
C16_Witness ==
    /\ LastCall("saveDocument")
    /\ log[2].tag = "saveDocument.saved"
    /\ log[1].request.diff_id \in DOMAIN diffSessions
    /\ diffSessions[log[1].request.diff_id].originalPath = FileF
    /\ diffSessions[log[1].request.diff_id].content = << <<"a">>, <<"B">> >>
    /\ fs[FileF] = FileNode(<<"a", NL, "B">>)


\* C17: sessions do not share state.  applyEdits, saveDocument and closeDiff
\* for one diff_id, and openDiff, leave every other session in the table
\* with the path and the lines it had, also a session opened on the same
\* path.
C17_SessionsIsolated ==
    [][\A id \in DOMAIN diffSessions :
          ( \/ LastCallNext("openDiff")
            \/ /\ \/ LastCallNext("applyEdits")
                  \/ LastCallNext("saveDocument")
                  \/ LastCallNext("closeDiff")
               /\ NextId # id )
          => /\ id \in DOMAIN diffSessions'
             /\ diffSessions'[id].originalPath = diffSessions[id].originalPath
             /\ diffSessions'[id].content = diffSessions[id].content]_vars

\* two sessions opened on the same path; the last call edited one of them
\* and the other still has the lines of the file
C17_Witness ==
    \E a, b \in DOMAIN diffSessions :
        /\ a # b
        /\ diffSessions[a].originalPath = diffSessions[b].originalPath
        /\ LastCall("applyEdits")
        /\ log[1].request.diff_id = a
        /\ diffSessions[a].content = << <<"a">>, <<"B">> >>
        /\ diffSessions[b].content = << <<"a">>, <<"b">> >>


\* the number of lines the range of an edit asks to replace
RangeCount(edit) ==
    LET startLine == IF "start_line" \in DOMAIN edit THEN edit.start_line ELSE 0
        endLine   == IF "end_line" \in DOMAIN edit THEN edit.end_line ELSE startLine
    IN  Max(endLine - startLine + 1, 0)

\* C18: every edit applied inserts at least one line, also an edit whose text
\* is empty or missing: after applyEdits with a non-empty list on an existing
\* session the content has at least one line, and a call with one edit
\* leaves at least one line more than the content less the range it names.
C18_EditLeavesALine ==
    [][( /\ EditsExistingSession
         /\ Len(RequestEdits(log'[1].request)) > 0 )
       => LET edits  == RequestEdits(log'[1].request)
              before == diffSessions[NextId].content
              after  == diffSessions'[NextId].content
          IN  /\ Len(after) >= 1
              /\ Len(edits) = 1
                    => Len(after) >= Len(before) - RangeCount(edits[1]) + 1]_vars

\* an edit without text replaced all three lines of the file: one empty line
\* is left
C18_Witness ==
    /\ LastCall("applyEdits")
    /\ log[1].request.diff_id \in DOMAIN diffSessions
    /\ RequestEdits(log[1].request) = << [end_line |-> 2] >>
    /\ diffSessions[log[1].request.diff_id].content = << <<>> >>

====
